---- MODULE Spec2Model ----
(***************************************************************************)
(* Model of mht::Model (src/src/model.cpp) and of the Python entry points  *)
(* (src/unnamed/part_000): the hypothesis graph, the weight layout, the    *)
(* construction of the optimizer model, ground-truth reconstruction,       *)
(* solution verification and result export.                                *)
(*                                                                         *)
(* A Variable is represented by the length of its feature vector; the      *)
(* code decides presence by getNumFeatures() > 0 (model.cpp:71,74) and by  *)
(* getOpenGMVariableId() == -1 (model.cpp:292,307).                        *)
(***************************************************************************)
EXTENDS Integers, Sequences, FiniteSets, TLC

\* ------------------------------------------------------------------ bounds
\* longest feature vector of a Variable
MaxFeat == 2
\* longest list of ground-truth annotations
MaxAnn == 3
\* longest list of exclusion constraints
MaxExcl == 2
\* most builds of the optimizer model on one graph instance
MaxBuilds == 2

\* numbers of segmentation hypotheses of the graphs reconstructed from
GraphSizes == {2, 3}

VARIABLES
    segmentationHypotheses_,   \* id -> [det, div, app, dis]: feature counts
    linkingHypotheses_,        \* <<src, dest>> -> feature count
    exclusionConstraints_,     \* sequence of sets of ids
    numDetFeatures_, numDivFeatures_, numAppFeatures_,
    numDisFeatures_, numLinkFeatures_,
    numWeights,                \* last value returned by computeNumWeights
    weightIds,                 \* category -> weight ids handed to addToOpenGMModel
    segVarId,                  \* id -> [det, div, app, dis]: optimizer ids, -1 absent
    linkVarId,                 \* <<src, dest>> -> optimizer id, -1 absent
    numberOfVariables,         \* model_.numberOfVariables()
    registered,                \* hypotheses and constraints added to model_, in order
    descriptions,              \* last value returned by getWeightDescriptions
    linkingResults,            \* the ground-truth annotations read
    solution,                  \* the Solution last produced or handed in
    exported,                  \* linkResults written by saveResultToJson
    valid,                     \* last value returned by verifySolution
    log,                       \* violation lines written by verifySolution
    pyCall,                    \* last Python-level call: name, functions run, result
    error,                     \* the exception that ended the run, if any
    pc

graphVars == <<segmentationHypotheses_, linkingHypotheses_, exclusionConstraints_>>
featVars == <<numDetFeatures_, numDivFeatures_, numAppFeatures_,
              numDisFeatures_, numLinkFeatures_>>
buildVars == <<weightIds, segVarId, linkVarId, numberOfVariables, registered>>
gtVars == <<linkingResults, solution>>
verifyVars == <<valid, log>>
vars == <<graphVars, featVars, numWeights, buildVars, descriptions, gtVars,
          exported, verifyVars, pyCall, error, pc>>

NoError == [kind |-> "none", what |-> "", id |-> 0]
Thrown(kind, what, id) == [kind |-> kind, what |-> what, id |-> id]

Max(a, b) == IF a >= b THEN a ELSE b

\* ------------------------------------------------- iteration order of std::map
RECURSIVE SortedIds(_)
SortedIds(S) ==
    IF S = {} THEN <<>>
    ELSE LET m == CHOOSE x \in S : \A y \in S : x <= y
         IN <<m>> \o SortedIds(S \ {m})

PairLeq(a, b) == a[1] < b[1] \/ (a[1] = b[1] /\ a[2] <= b[2])

RECURSIVE SortedPairs(_)
SortedPairs(S) ==
    IF S = {} THEN <<>>
    ELSE LET m == CHOOSE x \in S : \A y \in S : PairLeq(x, y)
         IN <<m>> \o SortedPairs(S \ {m})

\* ------------------------------------------------------- computeNumWeights
\* (mutant: the first Variable seen sets the count even when it has no features)
checkNumFeaturesAnyFirst(numFeatures, previousNumFeats) ==
    IF previousNumFeats < 0
    THEN [prev |-> numFeatures, ok |-> TRUE]
    ELSE IF numFeatures > 0 /\ numFeatures # previousNumFeats
         THEN [prev |-> previousNumFeats, ok |-> FALSE]
         ELSE [prev |-> previousNumFeats, ok |-> TRUE]

\* the lambda of model.cpp:69-76; ok = FALSE is the throw
checkNumFeatures(numFeatures, previousNumFeats) ==
    IF previousNumFeats < 0 /\ numFeatures > 0
    THEN [prev |-> numFeatures, ok |-> TRUE]
    ELSE IF numFeatures > 0 /\ numFeatures # previousNumFeats
         THEN [prev |-> previousNumFeats, ok |-> FALSE]
         ELSE [prev |-> previousNumFeats, ok |-> TRUE]

\* the loop of model.cpp:78-84 over the hypotheses in the given order
RECURSIVE ScanSegmentations(_, _, _)
ScanSegmentations(segs, order, acc) ==
    IF order = <<>> THEN acc
    ELSE LET h == segs[Head(order)]
             d == checkNumFeatures(h.det, acc.det)
             v == checkNumFeatures(h.div, acc.div)
             a == checkNumFeatures(h.app, acc.app)
             s == checkNumFeatures(h.dis, acc.dis)
         IN IF ~d.ok THEN [acc EXCEPT !.err = "Detections"]
            ELSE IF ~v.ok THEN [acc EXCEPT !.err = "Divisions"]
            ELSE IF ~a.ok THEN [acc EXCEPT !.err = "Appearances"]
            ELSE IF ~s.ok THEN [acc EXCEPT !.err = "Disappearances"]
            ELSE ScanSegmentations(segs, Tail(order),
                     [acc EXCEPT !.det = d.prev, !.div = v.prev,
                                 !.app = a.prev, !.dis = s.prev])

\* the loop of model.cpp:86-93 over the links in the given order
RECURSIVE ScanLinks(_, _, _)
ScanLinks(links, order, acc) ==
    IF order = <<>> THEN acc
    ELSE LET n == links[Head(order)]
         IN IF acc.link < 0
            THEN ScanLinks(links, Tail(order), [acc EXCEPT !.link = n])
            ELSE IF n # acc.link
                 THEN [acc EXCEPT !.err = "Links"]
                 ELSE ScanLinks(links, Tail(order), acc)

\* computeNumWeights with the scanning orders as parameters
computeNumWeightsIn(segs, links, segOrder, linkOrder) ==
    LET start == [det |-> -1, div |-> -1, app |-> -1, dis |-> -1,
                  link |-> -1, err |-> ""]
        a == ScanSegmentations(segs, segOrder, start)
        b == IF a.err # "" THEN a ELSE ScanLinks(links, linkOrder, a)
        det == Max(0, b.det)
        div == Max(0, b.div)
        app == Max(0, b.app)
        dis == Max(0, b.dis)
        link == Max(0, b.link)
    IN IF b.err # ""
       THEN [err |-> b.err, det |-> 0, div |-> 0, app |-> 0, dis |-> 0,
             link |-> 0, total |-> 0]
       ELSE [err |-> "", det |-> det, div |-> div, app |-> app, dis |-> dis,
             link |-> link, total |-> 2 * (det + div + link + app + dis)]

computeNumWeights(segs, links) ==
    computeNumWeightsIn(segs, links, SortedIds(DOMAIN segs),
                        SortedPairs(DOMAIN links))

\* std::iota over a vector of the given size
Iota(size, first) == [i \in 1..size |-> first + i - 1]

\* the weight-id vectors of initializeOpenGMModel, model.cpp:113-137
LinkWeightIds(r) == Iota(2 * r.link, 0)
DetWeightIds(r) == Iota(2 * r.det, 2 * r.link)
DivWeightIds(r) == Iota(2 * r.div, 2 * r.link + 2 * r.det)
AppWeightIds(r) == Iota(2 * r.app, 2 * r.link + 2 * r.det + 2 * r.div)
\* (mutant: the appearance range is left out of the offset)
DisWeightIdsNoApp(r) == Iota(2 * r.dis, 2 * r.link + 2 * r.det + 2 * r.div)
DisWeightIds(r) ==
    Iota(2 * r.dis, 2 * r.link + 2 * r.det + 2 * r.div + 2 * r.app)

AssignWeightIds(r) ==
    [link |-> LinkWeightIds(r), det |-> DetWeightIds(r), div |-> DivWeightIds(r),
     app |-> AppWeightIds(r), dis |-> DisWeightIds(r)]

NoWeightIds == [link |-> <<>>, det |-> <<>>, div |-> <<>>, app |-> <<>>, dis |-> <<>>]

\* ------------------------------------------- registration with the optimizer
\* the present Variables in the order in which they are registered: links
\* first (model.cpp:118-121), then the segmentation hypotheses
\* (model.cpp:139-142); every link and every segmentation Variable that has
\* features gets the next free id
PresentLinks(links) == SortedPairs(DOMAIN links)

RECURSIVE PresentSegVars(_, _)
PresentSegVars(segs, order) ==
    IF order = <<>> THEN <<>>
    ELSE LET id == Head(order)
             h == segs[id]
             one(c, n) == IF n > 0 THEN <<[cat |-> c, id |-> id]>> ELSE <<>>
         IN one("det", h.det) \o one("div", h.div) \o one("app", h.app)
            \o one("dis", h.dis) \o PresentSegVars(segs, Tail(order))

IndexOf(seq, x) ==
    IF \E i \in 1..Len(seq) : seq[i] = x
    THEN CHOOSE i \in 1..Len(seq) : seq[i] = x
    ELSE 0

\* ids handed out by one pass of addToOpenGMModel, starting at `first`
AllocLinkIds(links, first) ==
    LET p == PresentLinks(links)
    IN [k \in DOMAIN links |->
          IF IndexOf(p, k) = 0 THEN -1 ELSE first + IndexOf(p, k) - 1]

AllocSegIds(segs, first) ==
    LET p == PresentSegVars(segs, SortedIds(DOMAIN segs))
        idOf(c, id) == LET i == IndexOf(p, [cat |-> c, id |-> id])
                       IN IF i = 0 THEN -1 ELSE first + i - 1
    IN [id \in DOMAIN segs |->
          [det |-> idOf("det", id), div |-> idOf("div", id),
           app |-> idOf("app", id), dis |-> idOf("dis", id)]]

NumPresent(segs, links) ==
    Len(PresentLinks(links)) + Len(PresentSegVars(segs, SortedIds(DOMAIN segs)))

\* the calls of addToOpenGMModel made by one build, in order: the linking
\* hypotheses (model.cpp:118-121), the segmentation hypotheses
\* (model.cpp:139-142), the exclusion constraints (model.cpp:144-147)
Added(kind, keys) == [i \in 1..Len(keys) |-> [kind |-> kind, key |-> keys[i]]]

RegistrationSegmentationsFirst(segs, links, excl) ==
    Added("segmentation", [i \in 1..Cardinality(DOMAIN segs) |->
                              <<SortedIds(DOMAIN segs)[i]>>])
    \o Added("link", SortedPairs(DOMAIN links))
    \o Added("exclusion", [i \in 1..Len(excl) |-> <<i>>])

Registration(segs, links, excl) ==
    Added("link", SortedPairs(DOMAIN links))
    \o Added("segmentation", [i \in 1..Cardinality(DOMAIN segs) |->
                                 <<SortedIds(DOMAIN segs)[i]>>])
    \o Added("exclusion", [i \in 1..Len(excl) |-> <<i>>])

\* ---------------------------------------------------- getWeightDescriptions
\* the lambda of model.cpp:409-422
addVariableWeightDescriptions(numFeatures, name) ==
    [i \in 1..(2 * numFeatures) |->
        [name |-> name,
         state |-> IF i <= numFeatures THEN 0 ELSE 1,
         feature |-> IF i <= numFeatures THEN i - 1 ELSE i - 1 - numFeatures]]

\* model.cpp:424-428
getWeightDescriptions(r) ==
    addVariableWeightDescriptions(r.det, "Detection")
    \o addVariableWeightDescriptions(r.div, "Division")
    \o addVariableWeightDescriptions(r.app, "Appearance")
    \o addVariableWeightDescriptions(r.dis, "Disappearance")
    \o addVariableWeightDescriptions(r.link, "Link")

\* ------------------------------------------------------------------ actions
SetFeatureCounts(r) ==
    /\ numDetFeatures_' = r.det
    /\ numDivFeatures_' = r.div
    /\ numAppFeatures_' = r.app
    /\ numDisFeatures_' = r.dis
    /\ numLinkFeatures_' = r.link

Members ==
    [det |-> numDetFeatures_, div |-> numDivFeatures_, app |-> numAppFeatures_,
     dis |-> numDisFeatures_, link |-> numLinkFeatures_]

ConsistencyError(r) == Thrown("runtime_error", r.err, 0)

\* Model::computeNumWeights, model.cpp:61-104
ComputeNumWeights ==
    /\ pc = "loaded"
    /\ LET r == computeNumWeights(segmentationHypotheses_, linkingHypotheses_)
       IN IF r.err # ""
          THEN /\ error' = ConsistencyError(r)
               /\ pc' = "failed"
               /\ UNCHANGED <<featVars, numWeights>>
          ELSE /\ SetFeatureCounts(r)
               /\ numWeights' = r.total
               /\ pc' = "counted"
               /\ UNCHANGED error
    /\ UNCHANGED <<graphVars, buildVars, descriptions, gtVars, exported,
                   verifyVars, pyCall>>

\* the body of Model::initializeOpenGMModel, model.cpp:106-148; it has no
\* test for an earlier build, the ids continue after those model_ already has
initializeOpenGMModel(done) ==
    /\ LET r == computeNumWeights(segmentationHypotheses_, linkingHypotheses_)
       IN IF r.err # ""
          THEN /\ error' = ConsistencyError(r)
               /\ pc' = "failed"
               /\ UNCHANGED <<featVars, buildVars>>
          ELSE /\ SetFeatureCounts(r)
               /\ weightIds' = AssignWeightIds(r)
               /\ linkVarId' = AllocLinkIds(linkingHypotheses_, numberOfVariables)
               /\ segVarId' = AllocSegIds(segmentationHypotheses_,
                                  numberOfVariables
                                  + Len(PresentLinks(linkingHypotheses_)))
               /\ numberOfVariables' =
                      numberOfVariables
                      + NumPresent(segmentationHypotheses_, linkingHypotheses_)
               /\ registered' =
                      registered \o Registration(segmentationHypotheses_,
                                                 linkingHypotheses_,
                                                 exclusionConstraints_)
               /\ pc' = done
               /\ UNCHANGED error
    /\ UNCHANGED <<graphVars, numWeights, descriptions, gtVars, exported,
                   verifyVars, pyCall>>

\* the first build of a graph instance, by infer (model.cpp:157) or by learn
\* (model.cpp:190)
InitializeOpenGMModel ==
    /\ pc = "counted"
    /\ initializeOpenGMModel("built")

\* the builds made so far: each one adds every hypothesis and constraint once
Builds ==
    Len(registered) \div Len(Registration(segmentationHypotheses_,
                                          linkingHypotheses_,
                                          exclusionConstraints_))

\* infer or learn called again on the graph instance: computeNumWeights
\* (model.cpp:153,188) returns what it returned before and
\* initializeOpenGMModel (model.cpp:157,190) runs once more; the header only
\* warns against it (jsonmodel.h:14-18)
BuildAgain ==
    /\ pc \in {"built", "rebuilt"}
    /\ Builds < MaxBuilds
    /\ initializeOpenGMModel("rebuilt")

\* Model::getWeightDescriptions, model.cpp:404-431
GetWeightDescriptions ==
    /\ pc = "built"
    /\ LET r == computeNumWeights(segmentationHypotheses_, linkingHypotheses_)
       IN IF r.err # ""
          THEN /\ error' = ConsistencyError(r)
               /\ pc' = "failed"
               /\ UNCHANGED <<featVars, descriptions>>
          ELSE /\ SetFeatureCounts(r)
               /\ descriptions' = getWeightDescriptions(r)
               /\ pc' = "described"
               /\ UNCHANGED error
    /\ UNCHANGED <<graphVars, numWeights, buildVars, gtVars, exported,
                   verifyVars, pyCall>>

\* ------------------------------------------------------------ readGTfromJson
\* Solution solution(model_.numberOfVariables(), 0), model.cpp:234
EmptySolution == [i \in 0..(numberOfVariables - 1) |-> 0]

\* solution[id] = 1; an id outside the vector (the -1 of an absent Variable,
\* converted to the index type) is an out-of-bounds write: undefined
\* behaviour, recorded here and resolved by the action
Write(st, id) ==
    IF id \in DOMAIN st.sol
    THEN [st EXCEPT !.sol[id] = 1]
    ELSE [st EXCEPT !.oob = TRUE]

\* solution[id]; every id read in the graphs below is inside the vector
Read(sol, id) == IF id \in DOMAIN sol THEN sol[id] ELSE 0

Throw(st, what, id) ==
    [st EXCEPT !.status = "throw", !.error = Thrown("runtime_error", what, id)]

CannotFindLink == "Cannot find link to annotate"
UsedMoreThanOnce == "A source node has been used more than once!"
NoAppearance == "GT contains appearing variable that has no appearance features set!"
NoDisappearance == "GT contains disappearing variable that has no disappearance features set!"

\* one iteration of the first loop, model.cpp:237-267
Pass1Step(st, a) ==
    IF st.status # "ok" \/ ~a.value THEN st
    ELSE IF <<a.src, a.dest>> \notin DOMAIN linkingHypotheses_
         THEN Throw(st, CannotFindLink, a.src)
         ELSE LET s1 == Write(st, linkVarId[<<a.src, a.dest>>])
                  det == segVarId[a.src].det
              IN IF Read(s1.sol, det) = 1
                 THEN Write(s1, segVarId[a.src].div)
                 ELSE IF Read(s1.sol, det) = 1
                      THEN Throw(s1, UsedMoreThanOnce, a.src)
                      ELSE Write(s1, det)

\* (mutant: the second loop activates the source again, not the destination)
Pass2StepSource(st, a) ==
    IF st.status # "ok" \/ ~a.value THEN st
    ELSE Write(st, segVarId[a.src].det)

\* one iteration of the second loop, model.cpp:270-281
Pass2Step(st, a) ==
    IF st.status # "ok" \/ ~a.value THEN st
    ELSE Write(st, segVarId[a.dest].det)

\* SegmentationHypothesis::getNumActiveIncomingLinks / OutgoingLinks
getNumActiveIncomingLinks(id, sol) ==
    Cardinality({k \in DOMAIN linkingHypotheses_ :
                    k[2] = id /\ Read(sol, linkVarId[k]) > 0})

getNumActiveOutgoingLinks(id, sol) ==
    Cardinality({k \in DOMAIN linkingHypotheses_ :
                    k[1] = id /\ Read(sol, linkVarId[k]) > 0})

\* (mutant: the disappearance test looks at the incoming links again)
ClosingStepIncomingTwice(st, id) ==
    IF st.status # "ok" \/ Read(st.sol, segVarId[id].det) = 0 THEN st
    ELSE LET s1 == IF getNumActiveIncomingLinks(id, st.sol) = 0
                   THEN IF segVarId[id].app = -1
                        THEN Throw(st, NoAppearance, id)
                        ELSE Write(st, segVarId[id].app)
                   ELSE st
         IN IF s1.status = "ok" /\ getNumActiveIncomingLinks(id, s1.sol) = 0
            THEN IF segVarId[id].dis = -1
                 THEN Throw(s1, NoDisappearance, id)
                 ELSE Write(s1, segVarId[id].dis)
            ELSE s1

\* one iteration of the closing loop, model.cpp:283-319
ClosingStep(st, id) ==
    IF st.status # "ok" \/ Read(st.sol, segVarId[id].det) = 0 THEN st
    ELSE LET s1 == IF getNumActiveIncomingLinks(id, st.sol) = 0
                   THEN IF segVarId[id].app = -1
                        THEN Throw(st, NoAppearance, id)
                        ELSE Write(st, segVarId[id].app)
                   ELSE st
         IN IF s1.status = "ok" /\ getNumActiveOutgoingLinks(id, s1.sol) = 0
            THEN IF segVarId[id].dis = -1
                 THEN Throw(s1, NoDisappearance, id)
                 ELSE Write(s1, segVarId[id].dis)
            ELSE s1

RECURSIVE Pass1(_, _)
Pass1(st, anns) ==
    IF anns = <<>> THEN st ELSE Pass1(Pass1Step(st, Head(anns)), Tail(anns))

RECURSIVE Pass2(_, _)
Pass2(st, anns) ==
    IF anns = <<>> THEN st ELSE Pass2(Pass2Step(st, Head(anns)), Tail(anns))

RECURSIVE Closing(_, _)
Closing(st, order) ==
    IF order = <<>> THEN st ELSE Closing(ClosingStep(st, Head(order)), Tail(order))

\* both loops over the annotations run as one: the destination of an
\* annotation is activated before the next annotation is looked at
RECURSIVE Interleaved(_, _)
Interleaved(st, anns) ==
    IF anns = <<>> THEN st
    ELSE Interleaved(Pass2Step(Pass1Step(st, Head(anns)), Head(anns)), Tail(anns))

readGTfromJsonInterleaved(anns) ==
    Closing(Interleaved([sol |-> EmptySolution, status |-> "ok",
                         error |-> NoError, oob |-> FALSE], anns),
            SortedIds(DOMAIN segmentationHypotheses_))

\* Model::readGTfromJson, model.cpp:221-324, with every out-of-bounds write
\* taken to have left the Solution alone
readGTfromJson(anns) ==
    Closing(Pass2(Pass1([sol |-> EmptySolution, status |-> "ok",
                         error |-> NoError, oob |-> FALSE], anns), anns),
            SortedIds(DOMAIN segmentationHypotheses_))

\* what a run of readGTfromJson can end in: an out-of-bounds write either
\* kills the process or lands outside the Solution (in the allocator's
\* bookkeeping in front of the vector's storage) and the run goes on
Outcomes(anns) ==
    LET r == readGTfromJson(anns)
    IN IF r.oob
       THEN {r, [r EXCEPT !.status = "crash", !.error = NoError]}
       ELSE {r}

\* ---------------------------------------------------------- saveResultToJson
\* (mutant: a link counts as active only above 1)
saveResultToJsonAboveOne(sol) ==
    LET order == SortedPairs(DOMAIN linkingHypotheses_)
    IN [i \in 1..Len(order) |->
          [src |-> order[i][1], dest |-> order[i][2],
           value |-> Read(sol, linkVarId[order[i]]) > 1]]

\* the loop of model.cpp:364-370: one entry per linking hypothesis
saveResultToJson(sol) ==
    LET order == SortedPairs(DOMAIN linkingHypotheses_)
    IN [i \in 1..Len(order) |->
          [src |-> order[i][1], dest |-> order[i][2],
           value |-> Read(sol, linkVarId[order[i]]) > 0]]

\* ------------------------------------------------------------ verifySolution
\* ExclusionConstraint::verifySolution: the sum of the members' detections
RECURSIVE SumDetections(_, _)
SumDetections(ids, sol) ==
    IF ids = {} THEN 0
    ELSE LET id == CHOOSE x \in ids : TRUE
         IN Read(sol, segVarId[id].det) + SumDetections(ids \ {id}, sol)

ExclusionVerifySolution(c, sol) == SumDetections(c, sol) <= 1

\* SegmentationHypothesis::verifySolution: the rule of the closing loop of
\* readGTfromJson, evaluated; an inactive hypothesis has no active link
SegmentationVerifySolution(id, sol) ==
    IF Read(sol, segVarId[id].det) > 0
    THEN /\ getNumActiveIncomingLinks(id, sol) = 0
              => Read(sol, segVarId[id].app) = 1
         /\ getNumActiveOutgoingLinks(id, sol) = 0
              => Read(sol, segVarId[id].dis) = 1
    ELSE /\ getNumActiveIncomingLinks(id, sol) = 0
         /\ getNumActiveOutgoingLinks(id, sol) = 0

ExclusionLine == "Found violated exclusion constraint"
FlowLine == "Found violated flow conservation constraint"

\* the loop of model.cpp:333-340
RECURSIVE VerifyExclusions(_, _, _)
VerifyExclusions(r, excl, sol) ==
    IF excl = <<>> THEN r
    ELSE VerifyExclusions(
             IF ~ExclusionVerifySolution(Head(excl), sol)
             THEN [valid |-> FALSE, log |-> Append(r.log, ExclusionLine)]
             ELSE r,
             Tail(excl), sol)

\* the loop of model.cpp:343-350
RECURSIVE VerifySegmentations(_, _, _)
VerifySegmentations(r, order, sol) ==
    IF order = <<>> THEN r
    ELSE VerifySegmentations(
             IF ~SegmentationVerifySolution(Head(order), sol)
             THEN [valid |-> FALSE, log |-> Append(r.log, FlowLine)]
             ELSE r,
             Tail(order), sol)

\* (mutant: the first violation found ends the check)
RECURSIVE StopAtFirst(_, _, _)
StopAtFirst(excl, order, sol) ==
    IF excl # <<>>
    THEN IF ~ExclusionVerifySolution(Head(excl), sol)
         THEN [valid |-> FALSE, log |-> <<ExclusionLine>>]
         ELSE StopAtFirst(Tail(excl), order, sol)
    ELSE IF order # <<>>
         THEN IF ~SegmentationVerifySolution(Head(order), sol)
              THEN [valid |-> FALSE, log |-> <<FlowLine>>]
              ELSE StopAtFirst(excl, Tail(order), sol)
         ELSE [valid |-> TRUE, log |-> <<>>]

verifySolutionStopAtFirst(sol) ==
    StopAtFirst(exclusionConstraints_,
                SortedIds(DOMAIN segmentationHypotheses_), sol)

\* Model::verifySolution, model.cpp:326-353
verifySolution(sol) ==
    VerifySegmentations(
        VerifyExclusions([valid |-> TRUE, log |-> <<>>],
                         exclusionConstraints_, sol),
        SortedIds(DOMAIN segmentationHypotheses_), sol)

\* ------------------------------------------------------------ Python module
\* the Model operations the functions of part_000 run, and what they return
track == [ran |-> <<"readFromPython", "infer", "saveResultToPython">>,
          returns |-> "linkResults"]
train == [ran |-> <<"readFromPython", "setPythonGt", "learn",
                    "saveWeightsToPython">>,
          returns |-> "weights"]
validate == [ran |-> <<"readFromPython", "setPythonGt", "getGroundTruth",
                       "verifySolution">>,
             returns |-> "bool"]

\* the def(...) lines of BOOST_PYTHON_MODULE, part_000:61-74
PythonNames == {"track", "train", "validate"}
Bound(name) ==
    CASE name = "track" -> track
      [] name = "train" -> train
      [] name = "validate" -> train


\* annotations of a ground-truth file
Annotation(k, v) == [src |-> k[1], dest |-> k[2], value |-> v]

SeqsUpTo(S, n) == UNION {[1..m -> S] : m \in 0..n}

\* Model::readGTfromJson, model.cpp:221-324, on a ground-truth file
ReadGTfromJson ==
    /\ pc = "built"
    /\ \E anns \in SeqsUpTo(
              {Annotation(k, TRUE) : k \in DOMAIN linkingHypotheses_}
              \cup {Annotation(<<1, 2>>, FALSE), Annotation(<<2, 1>>, TRUE)},
              MaxAnn) :
         \E r \in Outcomes(anns) :
            /\ linkingResults' = anns
            /\ solution' = IF r.status = "ok" THEN r.sol ELSE <<>>
            /\ error' = r.error
            /\ pc' = CASE r.status = "ok" -> "reconstructed"
                        [] r.status = "throw" -> "failed"
                        [] r.status = "crash" -> "crashed"
    /\ UNCHANGED <<graphVars, featVars, numWeights, buildVars, descriptions,
                   exported, verifyVars, pyCall>>

\* Model::saveResultToJson, model.cpp:355-376
SaveResultToJson ==
    /\ pc = "reconstructed"
    /\ exported' = saveResultToJson(solution)
    /\ pc' = "saved"
    /\ UNCHANGED <<graphVars, featVars, numWeights, buildVars, descriptions,
                   gtVars, verifyVars, pyCall, error>>

\* a call of the Python module by name, part_000:59-75
PyCall ==
    /\ pc = "loaded"
    /\ \E name \in PythonNames :
          pyCall' = [name |-> name, ran |-> Bound(name).ran,
                     returns |-> Bound(name).returns]
    /\ pc' = "returned"
    /\ UNCHANGED <<graphVars, featVars, numWeights, buildVars, descriptions,
                   gtVars, exported, verifyVars, error>>

\* the optimizer run of Model::infer, model.cpp:172-182: the external solver
\* hands back some labeling of the model's variables
Infer ==
    /\ pc = "built"
    /\ solution' \in [0..(numberOfVariables - 1) -> {0, 1}]
    /\ pc' = "solved"
    /\ UNCHANGED <<graphVars, featVars, numWeights, buildVars, descriptions,
                   linkingResults, exported, verifyVars, pyCall, error>>

\* Model::verifySolution, model.cpp:326-353
VerifySolution ==
    /\ pc = "solved"
    /\ valid' = verifySolution(solution).valid
    /\ log' = verifySolution(solution).log
    /\ pc' = "verified"
    /\ UNCHANGED <<graphVars, featVars, numWeights, buildVars, descriptions,
                   gtVars, exported, pyCall, error>>

\* --------------------------------------------------------------- the graphs
\* lengths a feature vector takes: none, one feature, the longest
FeatureCounts == {0, 1, MaxFeat}

\* state right after readFromJson: nothing computed, nothing registered
Loaded(segs, links, excl) ==
    /\ segmentationHypotheses_ = segs
    /\ linkingHypotheses_ = links
    /\ exclusionConstraints_ = excl
    /\ numDetFeatures_ = 0 /\ numDivFeatures_ = 0 /\ numAppFeatures_ = 0
    /\ numDisFeatures_ = 0 /\ numLinkFeatures_ = 0
    /\ numWeights = 0
    /\ weightIds = NoWeightIds
    /\ segVarId = [id \in DOMAIN segs |->
                      [det |-> -1, div |-> -1, app |-> -1, dis |-> -1]]
    /\ linkVarId = [k \in DOMAIN links |-> -1]
    /\ numberOfVariables = 0
    /\ registered = <<>>
    /\ descriptions = <<>>
    /\ linkingResults = <<>>
    /\ solution = <<>>
    /\ exported = <<>>
    /\ valid = TRUE
    /\ log = <<>>
    /\ pyCall = [name |-> "", ran |-> <<>>, returns |-> ""]
    /\ error = NoError
    /\ pc = "loaded"

\* graphs for the weight layout: two hypotheses with every combination of
\* feature-vector lengths, and the links between them
WeightSegs ==
    [{1, 2} -> [det : FeatureCounts, div : FeatureCounts,
                app : FeatureCounts, dis : FeatureCounts]]
WeightLinks ==
    UNION {[K -> FeatureCounts] : K \in SUBSET {<<1, 2>>, <<2, 1>>}}

InitWeights ==
    \E segs \in WeightSegs, links \in WeightLinks : Loaded(segs, links, <<>>)

NextWeights ==
    \/ ComputeNumWeights
    \/ InitializeOpenGMModel
    \/ GetWeightDescriptions

SpecWeights == InitWeights /\ [][NextWeights]_vars

\* graphs for ground-truth reconstruction: hypotheses 1..n with one detection
\* feature each and any choice of division, appearance and disappearance
\* features, linked from every hypothesis to every later one
Forward(n) == {k \in (1..n) \X (1..n) : k[1] < k[2]}
TrackSegs(n) ==
    [1..n -> [det : {1}, div : {0, 1}, app : {0, 1}, dis : {0, 1}]]

Init ==
    \E n \in GraphSizes : \E segs \in TrackSegs(n) :
        Loaded(segs, [k \in Forward(n) |-> 1], <<>>)

Next ==
    \/ ComputeNumWeights
    \/ InitializeOpenGMModel
    \/ ReadGTfromJson
    \/ SaveResultToJson
    \/ PyCall

Spec == Init /\ [][Next]_vars

\* graphs for verification: two hypotheses with any optional Variables, or
\* three hypotheses with detections only, and exclusion constraints over them
ExclusionSets(n) == {c \in SUBSET (1..n) : Cardinality(c) >= 2}
DetectionOnly(n) == [1..n -> [det : {1}, div : {0}, app : {0}, dis : {0}]]

InitVerify ==
    \/ \E segs \in TrackSegs(2), excl \in SeqsUpTo(ExclusionSets(2), MaxExcl) :
          Loaded(segs, [k \in Forward(2) |-> 1], excl)
    \/ \E segs \in DetectionOnly(3), excl \in SeqsUpTo(ExclusionSets(3), MaxExcl) :
          Loaded(segs, [k \in Forward(3) |-> 1], excl)

NextVerify ==
    \/ ComputeNumWeights
    \/ InitializeOpenGMModel
    \/ Infer
    \/ VerifySolution

SpecVerify == InitVerify /\ [][NextVerify]_vars

\* graphs for the build lifecycle: those of ground-truth reconstruction and
\* those of verification
InitBuild == Init \/ InitVerify

NextBuild ==
    \/ ComputeNumWeights
    \/ InitializeOpenGMModel
    \/ BuildAgain

SpecBuild == InitBuild /\ [][NextBuild]_vars

\* ------------------------------------------------------- what the graph says
Categories == {"det", "div", "app", "dis", "link"}

\* the feature-vector lengths of the present Variables of a category: a
\* segmentation Variable is present when it has features, a link always is
Lengths(c) ==
    IF c = "link"
    THEN {linkingHypotheses_[k] : k \in DOMAIN linkingHypotheses_}
    ELSE {segmentationHypotheses_[id][c] : id \in DOMAIN segmentationHypotheses_}
         \ {0}

Mismatched == {c \in Categories : Cardinality(Lengths(c)) > 1}

LengthOf(c) == IF Lengths(c) = {} THEN 0 ELSE CHOOSE n \in Lengths(c) : TRUE

SumOfLengths ==
    LengthOf("link") + LengthOf("det") + LengthOf("div") + LengthOf("app")
    + LengthOf("dis")

ErrorName(c) ==
    CASE c = "det" -> "Detections"
      [] c = "div" -> "Divisions"
      [] c = "app" -> "Appearances"
      [] c = "dis" -> "Disappearances"
      [] c = "link" -> "Links"

DescriptionName(c) ==
    CASE c = "det" -> "Detection"
      [] c = "div" -> "Division"
      [] c = "app" -> "Appearance"
      [] c = "dis" -> "Disappearance"
      [] c = "link" -> "Link"

Orders(S) ==
    {f \in [1..Cardinality(S) -> S] : \A i, j \in DOMAIN f : f[i] = f[j] => i = j}

\* ------------------------------------------------------------------- claims

\* C1: the description at index i names the category, the state (0 = off
\* half, 1 = on half) and the feature number of the Variable kind that weight
\* index i was assigned to by initializeOpenGMModel.
C1_DescriptionsLineUp ==
    pc = "described" =>
        /\ Len(descriptions) = numWeights
        /\ \A i \in 1..Len(descriptions) :
              \E c \in Categories :
                \E j \in 1..Len(weightIds[c]) :
                    /\ weightIds[c][j] = i - 1
                    /\ descriptions[i] =
                          [name |-> DescriptionName(c),
                           state |-> IF j <= LengthOf(c) THEN 0 ELSE 1,
                           feature |-> IF j <= LengthOf(c) THEN j - 1
                                       ELSE j - 1 - LengthOf(c)]

\* C7: after the build the weight-id vectors of link, detection, division,
\* appearance and disappearance, in that order, are the consecutive pieces of
\* 0 .. numWeights-1, each of size twice its category's feature count, and
\* numWeights is twice the sum of the five counts.
C7_WeightRanges ==
    pc \in {"built", "described"} =>
        /\ \A c \in Categories : Len(weightIds[c]) = 2 * LengthOf(c)
        /\ numWeights = 2 * SumOfLengths
        /\ weightIds.link \o weightIds.det \o weightIds.div \o weightIds.app
             \o weightIds.dis = [i \in 1..numWeights |-> i - 1]

C7_Witness ==
    /\ pc = "built"
    /\ numLinkFeatures_ = 1 /\ numDetFeatures_ = MaxFeat /\ numDivFeatures_ = 1
    /\ numAppFeatures_ = MaxFeat /\ numDisFeatures_ = 1
    /\ weightIds.dis = <<2 * MaxFeat + 2 + 2 + 2 * MaxFeat, 2 * MaxFeat + 2 + 2 + 2 * MaxFeat + 1>>

\* C8: computeNumWeights throws, naming a category whose present Variables
\* disagree in length, exactly when some category has such a disagreement, in
\* whichever order the hypotheses and links are scanned; otherwise it returns
\* twice the sum of the five lengths (0 for a category with no present Variable).
C8_ConsistencyError ==
    /\ pc # "loaded" => (pc = "failed" <=> Mismatched # {})
    /\ pc = "failed" =>
          /\ error.kind = "runtime_error"
          /\ error.what \in {ErrorName(c) : c \in Mismatched}
    /\ pc \notin {"loaded", "failed"} =>
          /\ numWeights = 2 * SumOfLengths
          /\ \A c \in Categories : Members[c] = LengthOf(c)
    /\ \A so \in Orders(DOMAIN segmentationHypotheses_),
          lo \in Orders(DOMAIN linkingHypotheses_) :
          LET r == computeNumWeightsIn(segmentationHypotheses_,
                                       linkingHypotheses_, so, lo)
          IN IF Mismatched # {}
             THEN r.err \in {ErrorName(c) : c \in Mismatched}
             ELSE r.err = "" /\ r.total = 2 * SumOfLengths

C8_Witness ==
    /\ pc = "failed"
    /\ error.what = "Appearances"
    /\ segmentationHypotheses_[1].app = MaxFeat
    /\ segmentationHypotheses_[2].app = 1
    /\ segmentationHypotheses_[1].det = 1
    /\ segmentationHypotheses_[2].det = 1

\* ------------------------------------------------ what the ground truth says
TrueLinks ==
    {<<linkingResults[i].src, linkingResults[i].dest>> :
        i \in {j \in 1..Len(linkingResults) : linkingResults[j].value}}

AllFound == TrueLinks \subseteq DOMAIN linkingHypotheses_

TimesSource(s) ==
    Cardinality({i \in 1..Len(linkingResults) :
                    linkingResults[i].value /\ linkingResults[i].src = s})

Finished == pc \in {"reconstructed", "saved", "failed", "crashed"}
Returned == pc \in {"reconstructed", "saved"}

Active(id) == \E k \in TrueLinks : k[1] = id \/ k[2] = id
NoneIncoming(id) == ~\E k \in TrueLinks : k[2] = id
NoneOutgoing(id) == ~\E k \in TrueLinks : k[1] = id

LacksAppearance(id) ==
    Active(id) /\ NoneIncoming(id) /\ segmentationHypotheses_[id].app = 0
LacksDisappearance(id) ==
    Active(id) /\ NoneOutgoing(id) /\ segmentationHypotheses_[id].dis = 0
Lacking ==
    {id \in DOMAIN segmentationHypotheses_ :
        LacksAppearance(id) \/ LacksDisappearance(id)}

\* hypotheses 1 and 2 with detection and appearance features only, link (1,2),
\* ground truth: link (1,2) true
OnlyAppearance == [det |-> 1, div |-> 0, app |-> 1, dis |-> 0]
C2_Scenario ==
    /\ DOMAIN segmentationHypotheses_ = {1, 2}
    /\ segmentationHypotheses_[1] = OnlyAppearance
    /\ segmentationHypotheses_[2] = OnlyAppearance
    /\ linkingResults = <<Annotation(<<1, 2>>, TRUE)>>

\* C2 as stated: in the scenario reconstruction returns a Solution with
\* link(1,2), detection(1), detection(2) and appearance(1) active, and the
\* export of it is the one link result (1, 2, true).
C2_ScenarioSucceeds ==
    (C2_Scenario /\ Finished) =>
        /\ Returned
        /\ solution[linkVarId[<<1, 2>>]] = 1
        /\ solution[segVarId[1].det] = 1
        /\ solution[segVarId[2].det] = 1
        /\ solution[segVarId[1].app] = 1
        /\ pc = "saved" => exported = <<Annotation(<<1, 2>>, TRUE)>>

\* C2 amended: in the scenario reconstruction fails in the closing pass with
\* the error naming hypothesis 2, which is active, has no active outgoing link
\* and no disappearance Variable; no Solution is returned, nothing exported.
C2_ScenarioFails ==
    (C2_Scenario /\ Finished) =>
        /\ pc = "failed"
        /\ error = Thrown("runtime_error", NoDisappearance, 2)
        /\ solution = <<>>
        /\ exported = <<>>

C2_Witness == C2_Scenario /\ pc = "failed" /\ error.id = 2

\* C3: when some source has three or more active annotations,
\* reconstruction fails with 'A source node has been used more than once'
\* and returns no Solution (stated where nothing else can fail: all annotated
\* links exist, the source has a division Variable and no hypothesis lacks
\* an appearance or disappearance Variable it needs).
C3_ThirdUseFails ==
    (Finished /\ AllFound /\ Lacking = {}
       /\ \E s \in DOMAIN segmentationHypotheses_ :
             TimesSource(s) >= 3 /\ segmentationHypotheses_[s].div > 0) =>
        /\ pc = "failed"
        /\ error.what = UsedMoreThanOnce
        /\ solution = <<>>

\* C4: when exactly two active annotations, of two different links, share
\* the source s: with a division Variable a returned Solution has
\* detection(s) and division(s) active; without one reconstruction fails
\* with an error and returns no Solution.
C4_DivisionOrFailure ==
    \A s \in DOMAIN segmentationHypotheses_ :
        (Finished /\ AllFound /\ TimesSource(s) = 2
           /\ Cardinality({k \in TrueLinks : k[1] = s}) = 2) =>
            IF segmentationHypotheses_[s].div > 0
            THEN Returned => /\ solution[segVarId[s].det] = 1
                             /\ solution[segVarId[s].div] = 1
            ELSE pc = "failed" /\ error # NoError /\ solution = <<>>

\* C5: with all annotated links found and no crash, reconstruction fails
\* exactly when some active hypothesis has no active incoming link and no
\* appearance Variable, or no active outgoing link and no disappearance
\* Variable; the error names the first such hypothesis and what it lacks;
\* a returned Solution has appearance active for every active hypothesis
\* without active incoming link and disappearance active for every active
\* hypothesis without active outgoing link.
C5_ClosingPass ==
    (Finished /\ AllFound /\ pc # "crashed") =>
        /\ Returned <=> Lacking = {}
        /\ pc = "failed" =>
              LET id == CHOOSE x \in Lacking : \A y \in Lacking : x <= y
              IN /\ error.kind = "runtime_error"
                 /\ error.id = id
                 /\ error.what = IF LacksAppearance(id) THEN NoAppearance
                                 ELSE NoDisappearance
        /\ Returned =>
              \A id \in DOMAIN segmentationHypotheses_ :
                  /\ solution[segVarId[id].det] = IF Active(id) THEN 1 ELSE 0
                  /\ (Active(id) /\ NoneIncoming(id)) =>
                        /\ segVarId[id].app # -1
                        /\ solution[segVarId[id].app] = 1
                  /\ (Active(id) /\ NoneOutgoing(id)) =>
                        /\ segVarId[id].dis # -1
                        /\ solution[segVarId[id].dis] = 1

\* hypotheses 1 (no appearance, no disappearance) and 2, link (1,2) true: the
\* failure names hypothesis 1
C5_Witness ==
    /\ DOMAIN segmentationHypotheses_ = {1, 2}
    /\ segmentationHypotheses_[1].app = 0
    /\ segmentationHypotheses_[1].dis = 0
    /\ segmentationHypotheses_[2].app = 1
    /\ linkingResults = <<Annotation(<<1, 2>>, TRUE)>>
    /\ pc = "failed"
    /\ error = Thrown("runtime_error", NoAppearance, 1)

\* C6: a Python call of 'validate' runs getGroundTruth and verifySolution,
\* never learn, and returns a boolean.
C6_ValidateValidates ==
    pyCall.name = "validate" =>
        /\ pyCall.ran = validate.ran
        /\ pyCall.returns = "bool"
        /\ \A i \in 1..Len(pyCall.ran) : pyCall.ran[i] # "learn"

\* C9: verifySolution returns true exactly when every exclusion constraint
\* has at most one active member detection and every hypothesis passes its
\* conservation check; it writes one line per violated constraint, exclusion
\* lines first, whatever was violated before; it changes neither the
\* Solution nor the graph.
ViolatedExclusions ==
    {i \in 1..Len(exclusionConstraints_) :
        Cardinality({id \in exclusionConstraints_[i] :
                        solution[segVarId[id].det] = 1}) > 1}
ViolatedSegmentations ==
    {id \in DOMAIN segmentationHypotheses_ :
        ~SegmentationVerifySolution(id, solution)}

C9_VerifyState ==
    pc = "verified" =>
        /\ valid <=> (ViolatedExclusions = {} /\ ViolatedSegmentations = {})
        /\ Len(log) = Cardinality(ViolatedExclusions)
                        + Cardinality(ViolatedSegmentations)
        /\ \A i \in 1..Len(log) :
              log[i] = IF i <= Cardinality(ViolatedExclusions)
                       THEN ExclusionLine ELSE FlowLine

C9_VerifyAccumulates ==
    /\ []C9_VerifyState
    /\ [][pc' = "verified" => /\ solution' = solution
                               /\ graphVars' = graphVars
                               /\ buildVars' = buildVars]_vars

\* exclusion {1,2} with both detections active is reported, and so is the
\* conservation violation that follows it
C9_Witness ==
    /\ pc = "verified"
    /\ exclusionConstraints_ = <<{1, 2}, {1, 2}>>
    /\ DOMAIN segmentationHypotheses_ = {1, 2}
    /\ solution[segVarId[1].det] = 1 /\ solution[segVarId[2].det] = 1
    /\ ~valid
    /\ Len(log) = 3

\* C10: after a successful reconstruction the export holds exactly one entry
\* per linking hypothesis, in the order of the links, whose value is true
\* exactly when the ground truth held a true annotation of that link.
C10_RoundTrip ==
    pc = "saved" =>
        /\ Len(exported) = Cardinality(DOMAIN linkingHypotheses_)
        /\ \A k \in DOMAIN linkingHypotheses_ :
              \E i \in 1..Len(exported) :
                  /\ exported[i] = Annotation(k, k \in TrueLinks)
                  /\ \A j \in 1..Len(exported) :
                        (exported[j].src = k[1] /\ exported[j].dest = k[2])
                            => j = i

C10_Witness ==
    /\ pc = "saved"
    /\ Len(exported) = 3
    /\ exported[1].value /\ ~exported[2].value /\ exported[3].value
    /\ Len(linkingResults) = 3
    /\ \E i \in 1..3 : ~linkingResults[i].value

\* ------------------------------------------------------------ build lifecycle
SegCategories == {"det", "div", "app", "dis"}

\* the present Variables of the graph: every link, and every segmentation
\* Variable that has features
PresentVariables ==
    {<<"link", k>> : k \in DOMAIN linkingHypotheses_}
    \cup {v \in SegCategories \X DOMAIN segmentationHypotheses_ :
             segmentationHypotheses_[v[2]][v[1]] > 0}

\* the optimizer id a Variable holds
OptimizerId(v) ==
    IF v[1] = "link" THEN linkVarId[v[2]] ELSE segVarId[v[2]][v[1]]

\* what one build has to add to the optimizer model
ToRegister ==
    {[kind |-> "link", key |-> k] : k \in DOMAIN linkingHypotheses_}
    \cup {[kind |-> "segmentation", key |-> <<id>>] :
             id \in DOMAIN segmentationHypotheses_}
    \cup {[kind |-> "exclusion", key |-> <<i>>] :
             i \in 1..Len(exclusionConstraints_)}

Rank(kind) ==
    CASE kind = "link" -> 1
      [] kind = "segmentation" -> 2
      [] kind = "exclusion" -> 3

\* the part of `registered` added by build number b
BuildBlock(b) ==
    SubSeq(registered, (b - 1) * Cardinality(ToRegister) + 1,
                       b * Cardinality(ToRegister))

LinksThenSegmentationsThenExclusions(block) ==
    /\ {block[i] : i \in 1..Len(block)} = ToRegister
    /\ \A i, j \in 1..Len(block) :
          i < j => /\ block[i] # block[j]
                   /\ Rank(block[i].kind) <= Rank(block[j].kind)

\* C11 (state part): after a build nothing has failed; the build added every
\* linking hypothesis, then every segmentation hypothesis, then every
\* exclusion constraint; the present Variables hold distinct optimizer ids,
\* the absent ones none; after the first build the optimizer model has one
\* variable per present Variable, after the second twice as many, the ids
\* of the second build being a further full set.
C11_BuildState ==
    Builds >= 1 =>
        /\ pc \in {"built", "rebuilt"}
        /\ error = NoError
        /\ \A b \in 1..Builds :
              LinksThenSegmentationsThenExclusions(BuildBlock(b))
        /\ \A v \in PresentVariables : OptimizerId(v) # -1
        /\ \A v \in (SegCategories \X DOMAIN segmentationHypotheses_)
                        \ PresentVariables : OptimizerId(v) = -1
        /\ \A v, w \in PresentVariables :
              OptimizerId(v) = OptimizerId(w) => v = w
        /\ {OptimizerId(v) : v \in PresentVariables} =
              ((Builds - 1) * Cardinality(PresentVariables))
                  .. (Builds * Cardinality(PresentVariables) - 1)
        /\ numberOfVariables = Builds * Cardinality(PresentVariables)

\* C11: the state part holds throughout, and a build requested on a graph
\* instance that was built once is carried out without an error and doubles
\* the number of variables of the optimizer model.
C11_BuildLifecycle ==
    /\ []C11_BuildState
    /\ [][pc = "built" =>
            /\ pc' = "rebuilt"
            /\ error' = NoError
            /\ numberOfVariables = Cardinality(PresentVariables)
            /\ numberOfVariables' = 2 * Cardinality(PresentVariables)]_vars

\* a graph with exclusion constraints and an absent Variable built twice
C11_Witness ==
    /\ pc = "rebuilt"
    /\ Builds = 2
    /\ Len(exclusionConstraints_) >= 1
    /\ \E id \in DOMAIN segmentationHypotheses_ :
          segmentationHypotheses_[id].div = 0
    /\ numberOfVariables = 2 * Cardinality(PresentVariables)
    /\ numberOfVariables > Cardinality(PresentVariables)

\* ------------------------------------------------- order of the annotations
Distinct(anns) == \A i, j \in 1..Len(anns) : anns[i] = anns[j] => i = j

\* the annotations read, listed in every order
Reorderings ==
    {[i \in 1..Len(linkingResults) |-> linkingResults[p[i]]] :
        p \in Orders(1..Len(linkingResults))}

\* hypotheses that a true annotation leads to and that exactly one true
\* annotation leaves
Continued ==
    {id \in DOMAIN segmentationHypotheses_ :
        /\ \E k \in TrueLinks : k[2] = id
        /\ TimesSource(id) = 1}

\* C12: when a Solution was returned for a list of distinct annotations, the
\* reconstruction returns that same Solution for the annotations listed in
\* any other order, and a hypothesis that is the destination of a true
\* annotation and the source of exactly one has its division Variable, if it
\* has one, left at 0.
C12_OrderIndependent ==
    (Returned /\ Distinct(linkingResults)) =>
        /\ \A anns \in Reorderings :
              /\ readGTfromJson(anns).status = "ok"
              /\ readGTfromJson(anns).sol = solution
        /\ \A id \in Continued :
              segVarId[id].div # -1 => solution[segVarId[id].div] = 0

\* hypothesis 2 continues a track, its incoming link is listed first, and it
\* has a division Variable
C12_Witness ==
    /\ Returned
    /\ linkingResults = <<Annotation(<<1, 2>>, TRUE), Annotation(<<2, 3>>, TRUE)>>
    /\ 2 \in Continued
    /\ segVarId[2].div # -1
    /\ solution[segVarId[2].div] = 0
    /\ solution[segVarId[2].det] = 1

====
